---- MODULE Spec2Model ----
(***************************************************************************)
(* Model of src/app.py: a Dash dashboard that authenticates against Earth  *)
(* Engine, builds two per-year Landsat 8 image requests (a true-colour     *)
(* summer composite and a land-surface-temperature image) and shows them   *)
(* as tile layers of a leaflet map, together with a status line.           *)
(*                                                                         *)
(* Text.  The user-visible strings of the source are Chinese; a string is  *)
(* modelled as the sequence of its pieces (tokens), each piece an ASCII    *)
(* gloss of the source text.  The pieces are cut so that the two needles   *)
(* the code searches for ("load-success", "load-failure") are pieces of    *)
(* their own:  `needle in s` is membership of the piece and                *)
(* s.replace(needle, t) rewrites every such piece.                         *)
(*    "Current year: "                        line 445  (dang qian nian fen)*)
(*    "LST and basemap data " "loading..."    line 445  (... zai ru zhong)  *)
(*    "Taiwan basemap " "load-success"        line 478  (... zai ru cheng gong)*)
(*    "Taiwan basemap " "load-failure" ", reason: " e       line 481       *)
(*    "and central LST layer " "load-success" line 497                     *)
(*    "basemap failed, but central LST layer " "load-success"  line 499    *)
(*    "LST image processing error: " e        line 502                     *)
(*    "no GEE image data available"           line 506                     *)
(***************************************************************************)
EXTENDS Integers, Sequences, FiniteSets, TLC

VARIABLES
    startup_pc,       \* position of the module-level code: bootstrap, regions, create_app, serving, aborted
    env_secret,       \* the GEE_SERVICE_SECRET environment variable
    ee_initialized,   \* "no", "yes", or "failed" (ee.Initialize raised and was caught)
    init_calls,       \* number of ee.Initialize calls made
    app_created,      \* the Dash app, its layout and its callback exist
    slider,           \* value of the year-slider
    display_children, \* children of leaflet-map as shown in the browser
    year_display,     \* children of year-display as shown in the browser
    cb,               \* the last invocation of update_map_layer
    px                \* a pixel of an image handed to mask_clouds_and_scale

vars == <<startup_pc, env_secret, ee_initialized, init_calls, app_created,
          slider, display_children, year_display, cb, px>>

----------------------------------------------------------------------------
(* Bounds of the model *)

\* tile map ids the remote service may hand out for one image
MaxMapId == 2
\* QA_PIXEL values 0 .. 2^QABits - 1 are enumerated
QABits == 7

----------------------------------------------------------------------------
(* Program constants *)

MinYear == 2015
MaxYear == 2025
years == MinYear..MaxYear
LST_MIN == 10
LST_MAX == 45
LegendZIndex == 1000
composite_iterations == 10
lst_iterations == 10

OSM_URL == <<"https://{s}.tile.openstreetmap.org/{z}/{x}/{y}.png">>

Pow2(n) == 2^n

RECURSIVE bitwiseAnd(_, _)
bitwiseAnd(a, b) ==
    IF a = 0 \/ b = 0 THEN 0
    ELSE 2 * bitwiseAnd(a \div 2, b \div 2) + (IF a % 2 = 1 /\ b % 2 = 1 THEN 1 ELSE 0)

cloud_bit_mask == Pow2(3)
cloud_shadow_bit_mask_bit5 == Pow2(5)
cloud_shadow_bit_mask == Pow2(4)

\* mask = qa & cloud_bit_mask == 0  And  qa & cloud_shadow_bit_mask == 0
CloudMask(qa) ==
    bitwiseAnd(qa, cloud_bit_mask) = 0 /\ bitwiseAnd(qa, cloud_shadow_bit_mask) = 0

\* raw * 0.0000275 + (-0.2), in units of 1e-7
ScaleSR(raw) == raw * 275 - 2000000

\* updateMask(mask) then the rescaling of the selected bands
mask_clouds_and_scale(p) ==
    [qa |-> p.qa, raw |-> p.raw, stage |-> "scaled",
     included |-> CloudMask(p.qa), sr |-> ScaleSR(p.raw)]

----------------------------------------------------------------------------
(* Image handles and the two request builders *)

None == [kind |-> "None", year |-> 0, ops |-> <<>>]

RECURSIVE Repeat(_, _)
Repeat(op, n) == IF n = 0 THEN <<>> ELSE <<op>> \o Repeat(op, n - 1)

\* what the remote service answers to collection.size().getInfo()
BuilderRemote == {"images", "empty", "EEException", "Exception"}

CompositeCollection == <<"ImageCollection", "filterBounds", "filterDate", "filter">>
LstCollection == <<"ImageCollection", "filterBounds", "filterDate", "filter">>

\* the operations get_l8_summer_composite applies, in order (lines 73-86)
CompositeOps ==
    CompositeCollection \o <<"size.getInfo", "map(mask_clouds_and_scale)", "median">>
        \o Repeat("unmask(focal_mean)", composite_iterations)
        \o <<"clip">>

\* the operations get_l8_summer_lst applies, in order (lines 97-118)
LstOps ==
    LstCollection \o <<"size.getInfo", "select", "median", "multiply", "add",
                       "subtract", "rename", "clip">>
        \o Repeat("unmask(focal_mean)", lst_iterations)

\* The body of the try block of a builder: the exception that leaves the block
\* (if any) and the value returned (if any).  The round trip size().getInfo()
\* is where the remote service answers.
CompositeBody(year, remote) ==
    IF remote = "EEException" \/ remote = "Exception" THEN [exc |-> remote, value |-> None]
    ELSE IF remote = "empty" THEN [exc |-> "none", value |-> None]
    ELSE [exc |-> "none", value |-> [kind |-> "composite", year |-> year, ops |-> CompositeOps]]

LstBody(year, remote) ==
    IF remote = "EEException" \/ remote = "Exception" THEN [exc |-> remote, value |-> None]
    ELSE IF remote = "empty" THEN [exc |-> "none", value |-> None]
    ELSE [exc |-> "none", value |-> [kind |-> "lst", year |-> year, ops |-> LstOps]]

\* try: body  except EEException: return None  except Exception: return None
TryReturnNone(body) ==
    IF body.exc = "none" THEN [raised |-> "none", value |-> body.value]
    ELSE IF body.exc = "EEException" THEN [raised |-> "none", value |-> None]
    ELSE IF body.exc = "Exception" THEN [raised |-> "none", value |-> None]
    ELSE [raised |-> body.exc, value |-> None]

\* the same without the generic handler
TryReturnNoneEEOnly(body) ==
    IF body.exc = "none" THEN [raised |-> "none", value |-> body.value]
    ELSE IF body.exc = "EEException" THEN [raised |-> "none", value |-> None]
    ELSE [raised |-> body.exc, value |-> None]

get_l8_summer_composite(year, remote) == TryReturnNone(CompositeBody(year, remote))

get_l8_summer_lst_unguarded(year, remote) == TryReturnNoneEEOnly(LstBody(year, remote))

get_l8_summer_lst(year, remote) == TryReturnNone(LstBody(year, remote))

NoCall == [raised |-> "none", value |-> None]

----------------------------------------------------------------------------
(* Map children *)

NoUrl == <<>>
NoText == <<>>

\* create_lst_legend(LST_MIN, LST_MAX, LST_PALETTE): the html.Div it returns
create_lst_legend(min_val, max_val) ==
    [type |-> "Div", id |-> "lst-legend", url |-> NoUrl, attribution |-> NoText,
     opacity_pct |-> 100, zIndex |-> LegendZIndex,
     labels |-> <<ToString(max_val), ToString(min_val)>>]

\* the base layer of the layout (line 418)
LayoutOsmLayer ==
    [type |-> "TileLayer", id |-> "osm-layer", url |-> OSM_URL, attribution |-> NoText,
     opacity_pct |-> 30, zIndex |-> 1, labels |-> <<>>]

\* the base layer the callback builds (lines 457-462)
global_osm ==
    [type |-> "TileLayer", id |-> "global-osm-layer", url |-> OSM_URL, attribution |-> NoText,
     opacity_pct |-> 100, zIndex |-> 1, labels |-> <<>>]

\* the same layer given the url of the base map
landsat_layer_osm_url(tile_url_comp, selected_year) ==
    [type |-> "TileLayer", id |-> "gee-composite-layer", url |-> OSM_URL,
     attribution |-> <<"GEE Landsat 8 Composite Taiwan ", ToString(selected_year)>>,
     opacity_pct |-> 100, zIndex |-> 5, labels |-> <<>>]

landsat_layer(tile_url_comp, selected_year) ==
    [type |-> "TileLayer", id |-> "gee-composite-layer", url |-> tile_url_comp,
     attribution |-> <<"GEE Landsat 8 Composite Taiwan ", ToString(selected_year)>>,
     opacity_pct |-> 100, zIndex |-> 5, labels |-> <<>>]

lst_layer(tile_url, selected_year) ==
    [type |-> "TileLayer", id |-> "gee-lst-layer", url |-> tile_url,
     attribution |-> <<"GEE Landsat 8 LST Taiwan Central ", ToString(selected_year)>>,
     opacity_pct |-> 80, zIndex |-> 10, labels |-> <<>>]

\* children of leaflet-map in app.layout (lines 416-423)
LayoutChildren == <<LayoutOsmLayer, create_lst_legend(LST_MIN, LST_MAX)>>

----------------------------------------------------------------------------
(* Tile generation: image.getMapId(vis)['tile_fetcher'].url_format *)

MapIds == 1..MaxMapId
EEMessages == {"Too many pixels"}

NoTile == [kind |-> "none", mapid |-> 0, msg |-> ""]
TileOutcomes ==
    {[kind |-> "ok", mapid |-> m, msg |-> ""] : m \in MapIds}
    \cup {[kind |-> "EEException", mapid |-> 0, msg |-> e] : e \in EEMessages}
    \cup {[kind |-> "Exception", mapid |-> 0, msg |-> ""]}

\* the url_format the service returns for this image and map id
TileUrl(image, mapid) ==
    <<"https://earthengine.googleapis.com/v1/projects/earthengine-legacy/maps/",
      image.kind, "-", ToString(image.year), "-", ToString(mapid), "/tiles/{z}/{x}/{y}">>

----------------------------------------------------------------------------
(* Status text *)

Contains(text, piece) == \E i \in 1..Len(text) : text[i] = piece

RECURSIVE Replace(_, _, _)
Replace(text, piece, by) ==
    IF text = <<>> THEN <<>>
    ELSE (IF Head(text) = piece THEN by ELSE <<Head(text)>>) \o Replace(Tail(text), piece, by)

StatusPrefix(selected_year) == <<"Current year: ", ToString(selected_year), " (">>

StatusLoading(selected_year) ==
    StatusPrefix(selected_year) \o <<"LST and basemap data ", "loading...", ")">>
StatusCompositeOk(selected_year) ==
    StatusPrefix(selected_year) \o <<"Taiwan basemap ", "load-success", ")">>
StatusCompositeFailed(selected_year, e) ==
    StatusPrefix(selected_year) \o <<"Taiwan basemap ", "load-failure", ", reason: ", e, ")">>
StatusLstOnly(selected_year) ==
    StatusPrefix(selected_year) \o <<"basemap failed, but central LST layer ", "load-success", ")">>
StatusLstError(selected_year, e) ==
    StatusPrefix(selected_year) \o <<"LST image processing error: ", e, ")">>
StatusNoData(selected_year) ==
    StatusPrefix(selected_year) \o <<"no GEE image data available", ")">>


----------------------------------------------------------------------------
(* The callback update_map_layer(selected_year, current_children) *)

\* new_children = []  and the list it begins with had the State been kept
new_children_from_state(current_children) == current_children

new_children_empty(current_children) == <<>>

\* lines 451-463: the new list, then the legend and the base layer
CallbackStart(status_text, current_children) ==
    [raised |-> "none",
     new_children |-> new_children_empty(current_children)
                      \o <<create_lst_legend(LST_MIN, LST_MAX), global_osm>>,
     status_text |-> status_text]

\* lines 466-481
CompositeStage(st, composite_image, selected_year, tile) ==
    IF composite_image = None THEN st
    ELSE IF tile.kind = "ok"
    THEN [st EXCEPT !.new_children =
                        Append(@, landsat_layer(TileUrl(composite_image, tile.mapid), selected_year)),
                    !.status_text = StatusCompositeOk(selected_year)]
    ELSE IF tile.kind = "EEException"
    THEN [st EXCEPT !.status_text = StatusCompositeFailed(selected_year, tile.msg)]
    ELSE [st EXCEPT !.raised = tile.kind]

\* lines 484-506 without the assignment of line 506
LstStageKeepStatus(st, lst_image, selected_year, tile) ==
    IF lst_image # None
    THEN IF tile.kind = "ok"
         THEN [st EXCEPT !.new_children =
                             Append(@, lst_layer(TileUrl(lst_image, tile.mapid), selected_year)),
                         !.status_text =
                             IF ~Contains(st.status_text, "load-failure")
                             THEN Replace(st.status_text, "load-success",
                                          <<"and central LST layer ", "load-success">>)
                             ELSE StatusLstOnly(selected_year)]
         ELSE IF tile.kind = "EEException"
         THEN [st EXCEPT !.status_text = StatusLstError(selected_year, tile.msg)]
         ELSE [st EXCEPT !.raised = tile.kind]
    ELSE st

\* lines 484-506
LstStage(st, lst_image, selected_year, tile) ==
    IF lst_image # None
    THEN IF tile.kind = "ok"
         THEN [st EXCEPT !.new_children =
                             Append(@, lst_layer(TileUrl(lst_image, tile.mapid), selected_year)),
                         !.status_text =
                             IF ~Contains(st.status_text, "load-failure")
                             THEN Replace(st.status_text, "load-success",
                                          <<"and central LST layer ", "load-success">>)
                             ELSE StatusLstOnly(selected_year)]
         ELSE IF tile.kind = "EEException"
         THEN [st EXCEPT !.status_text = StatusLstError(selected_year, tile.msg)]
         ELSE [st EXCEPT !.raised = tile.kind]
    ELSE IF ~Contains(st.status_text, "load-success")
         THEN [st EXCEPT !.status_text = StatusNoData(selected_year)]
         ELSE st

NoCallback ==
    [pc |-> "none", selected_year |-> 0, current_children |-> <<>>,
     lst_remote |-> "none", comp_remote |-> "none",
     lst_image |-> NoCall, composite_image |-> NoCall,
     comp_tile |-> NoTile, lst_tile |-> NoTile,
     new_children |-> <<>>, status_text |-> NoText]

\* lines 439-445: the callback is entered with the slider value and the State
Fire(y) ==
    cb' = [NoCallback EXCEPT !.pc = "get_lst", !.selected_year = y,
                             !.current_children = display_children,
                             !.status_text = StatusLoading(y)]

\* the page is loaded: the callback fires with the slider's initial value
InitialCallback ==
    /\ startup_pc = "serving"
    /\ cb.pc = "none"
    /\ Fire(slider)
    /\ UNCHANGED <<startup_pc, env_secret, ee_initialized, init_calls, app_created,
                   slider, display_children, year_display, px>>

\* the user moves the slider to y: the callback fires with y
SliderChange(y) ==
    /\ startup_pc = "serving"
    /\ cb.pc \in {"returned", "raised"}
    /\ y # slider
    /\ slider' = y
    /\ Fire(y)
    /\ UNCHANGED <<startup_pc, env_secret, ee_initialized, init_calls, app_created,
                   display_children, year_display, px>>

\* line 448
CallLstBuilder(remote) ==
    /\ cb.pc = "get_lst"
    /\ LET r == get_l8_summer_lst(cb.selected_year, remote)
       IN  cb' = [cb EXCEPT !.lst_remote = remote, !.lst_image = r,
                            !.pc = IF r.raised = "none" THEN "get_composite" ELSE "raised"]
    /\ UNCHANGED <<startup_pc, env_secret, ee_initialized, init_calls, app_created,
                   slider, display_children, year_display, px>>

\* line 449
CallCompositeBuilder(remote) ==
    /\ cb.pc = "get_composite"
    /\ LET r == get_l8_summer_composite(cb.selected_year, remote)
       IN  cb' = [cb EXCEPT !.comp_remote = remote, !.composite_image = r,
                            !.pc = IF r.raised = "none" THEN "composite_layer" ELSE "raised"]
    /\ UNCHANGED <<startup_pc, env_secret, ee_initialized, init_calls, app_created,
                   slider, display_children, year_display, px>>

\* lines 451-481: getMapId is called only for an image that exists
CompositeLayer(tile) ==
    /\ cb.pc = "composite_layer"
    /\ (tile = NoTile) = (cb.composite_image.value = None)
    /\ LET st == CompositeStage(CallbackStart(cb.status_text, cb.current_children),
                                cb.composite_image.value, cb.selected_year, tile)
       IN  cb' = [cb EXCEPT !.comp_tile = tile,
                            !.new_children = st.new_children,
                            !.status_text = st.status_text,
                            !.pc = IF st.raised = "none" THEN "lst_layer" ELSE "raised"]
    /\ UNCHANGED <<startup_pc, env_secret, ee_initialized, init_calls, app_created,
                   slider, display_children, year_display, px>>

\* lines 484-508: the LST layer, then the return; the two outputs reach the
\* page when the callback returns
LstLayerAndReturn(tile) ==
    /\ cb.pc = "lst_layer"
    /\ (tile = NoTile) = (cb.lst_image.value = None)
    /\ LET st == LstStage([raised |-> "none", new_children |-> cb.new_children,
                           status_text |-> cb.status_text],
                          cb.lst_image.value, cb.selected_year, tile)
       IN  /\ cb' = [cb EXCEPT !.lst_tile = tile,
                               !.new_children = st.new_children,
                               !.status_text = st.status_text,
                               !.pc = IF st.raised = "none" THEN "returned" ELSE "raised"]
           /\ display_children' = IF st.raised = "none" THEN st.new_children
                                  ELSE display_children
           /\ year_display' = IF st.raised = "none" THEN st.status_text ELSE year_display
    /\ UNCHANGED <<startup_pc, env_secret, ee_initialized, init_calls, app_created, slider, px>>

CallbackStep ==
    \/ \E remote \in BuilderRemote : CallLstBuilder(remote)
    \/ \E remote \in BuilderRemote : CallCompositeBuilder(remote)
    \/ \E tile \in TileOutcomes \cup {NoTile} : CompositeLayer(tile)
    \/ \E tile \in TileOutcomes \cup {NoTile} : LstLayerAndReturn(tile)

----------------------------------------------------------------------------
(* Module-level code *)

Unset == "<unset>"
EnvSecretValues == {Unset, "", "{malformed", "service-account-json", "not-a-service-account-json"}

\* os.environ.get("GEE_SERVICE_SECRET", "")
GEE_SECRET == IF env_secret = Unset THEN "" ELSE env_secret

\* json.loads and Credentials.from_service_account_info: do they raise
CredentialsRaise(secret) == secret # "service-account-json"

\* lines 14-29 with the service-account branch guarded like the default one
BootstrapGuarded(init_ok) ==
    /\ startup_pc = "bootstrap"
    /\ IF GEE_SECRET = ""
       THEN /\ init_calls' = init_calls + 1
            /\ ee_initialized' = (IF init_ok THEN "yes" ELSE "failed")
            /\ startup_pc' = "regions"
       ELSE IF CredentialsRaise(GEE_SECRET)
       THEN /\ init_calls' = init_calls
            /\ ee_initialized' = "failed"
            /\ startup_pc' = "regions"
       ELSE /\ init_calls' = init_calls + 1
            /\ ee_initialized' = (IF init_ok THEN "yes" ELSE "failed")
            /\ startup_pc' = "regions"
    /\ UNCHANGED <<env_secret, app_created, slider, display_children, year_display, cb, px>>

\* lines 14-29
Bootstrap(init_ok) ==
    /\ startup_pc = "bootstrap"
    /\ IF GEE_SECRET = ""
       THEN \* try: ee.Initialize()  except Exception: print
            /\ init_calls' = init_calls + 1
            /\ ee_initialized' = (IF init_ok THEN "yes" ELSE "failed")
            /\ startup_pc' = "regions"
       ELSE IF CredentialsRaise(GEE_SECRET)
       THEN \* json.loads or from_service_account_info raises: the module stops
            /\ init_calls' = init_calls
            /\ ee_initialized' = "no"
            /\ startup_pc' = "aborted"
       ELSE \* ee.Initialize(credentials), unguarded
            /\ init_calls' = init_calls + 1
            /\ ee_initialized' = (IF init_ok THEN "yes" ELSE "no")
            /\ startup_pc' = (IF init_ok THEN "regions" ELSE "aborted")
    /\ UNCHANGED <<env_secret, app_created, slider, display_children, year_display, cb, px>>

\* lines 35-38: the two ee.Geometry.Rectangle calls.  What the client library
\* does here when ee.Initialize failed is not decided by this file: either
\* outcome is allowed.
DefineRegions(raises) ==
    /\ startup_pc = "regions"
    /\ raises => ee_initialized = "failed"
    /\ startup_pc' = (IF raises THEN "aborted" ELSE "create_app")
    /\ UNCHANGED <<env_secret, ee_initialized, init_calls, app_created, slider,
                   display_children, year_display, cb, px>>

\* lines 377-438: the app, its layout and the registration of the callback
CreateApp ==
    /\ startup_pc = "create_app"
    /\ app_created' = TRUE
    /\ slider' = MaxYear
    /\ display_children' = LayoutChildren
    /\ year_display' = <<"Current year: ", ToString(MaxYear)>>
    /\ startup_pc' = "serving"
    /\ UNCHANGED <<env_secret, ee_initialized, init_calls, cb, px>>

NoPixel == [qa |-> 0, raw |-> 0, stage |-> "none", included |-> FALSE, sr |-> 0]

----------------------------------------------------------------------------
(* Specifications *)

\* The process from its start to the first run of the callback.
InitStartup ==
    /\ startup_pc = "bootstrap"
    /\ env_secret \in EnvSecretValues
    /\ ee_initialized = "no"
    /\ init_calls = 0
    /\ app_created = FALSE
    /\ slider = 0
    /\ display_children = <<>>
    /\ year_display = NoText
    /\ cb = NoCallback
    /\ px = NoPixel

NextStartup ==
    \/ \E init_ok \in BOOLEAN : Bootstrap(init_ok)
    \/ \E raises \in BOOLEAN : DefineRegions(raises)
    \/ CreateApp
    \/ InitialCallback
    \/ CallbackStep

SpecStartup == InitStartup /\ [][NextStartup]_vars

\* The serving app: the state CreateApp leaves when the service-account secret
\* is valid and ee.Initialize(credentials) succeeded, then any slider changes.
Init ==
    /\ startup_pc = "serving"
    /\ env_secret = "service-account-json"
    /\ ee_initialized = "yes"
    /\ init_calls = 1
    /\ app_created = TRUE
    /\ slider = MaxYear
    /\ display_children = LayoutChildren
    /\ year_display = <<"Current year: ", ToString(MaxYear)>>
    /\ cb = NoCallback
    /\ px = NoPixel

Next ==
    \/ InitialCallback
    \/ \E y \in years : SliderChange(y)
    \/ CallbackStep

Spec == Init /\ [][Next]_vars

----------------------------------------------------------------------------
(* The cloud mask over pixels *)

QAValues == 0..(Pow2(QABits) - 1)
RawValues == {0, 7273, 20000, 65535}

\* collection.map(mask_clouds_and_scale), on one pixel of one image
MaskPixel ==
    /\ px.stage = "raw"
    /\ px' = mask_clouds_and_scale(px)
    /\ UNCHANGED <<startup_pc, env_secret, ee_initialized, init_calls, app_created,
                   slider, display_children, year_display, cb>>

InitMask ==
    /\ startup_pc = "serving"
    /\ env_secret = "service-account-json"
    /\ ee_initialized = "yes"
    /\ init_calls = 1
    /\ app_created = TRUE
    /\ slider = MaxYear
    /\ display_children = LayoutChildren
    /\ year_display = <<"Current year: ", ToString(MaxYear)>>
    /\ cb = NoCallback
    /\ px \in [qa : QAValues, raw : RawValues, stage : {"raw"}, included : {TRUE}, sr : {0}]

NextMask == MaskPixel

SpecMask == InitMask /\ [][NextMask]_vars

----------------------------------------------------------------------------
(* Properties *)

Returned == cb.pc = "returned"
BuildersCalled == cb.lst_remote # "none" /\ cb.comp_remote # "none"
IsHandle(v, kind, year) == v # None /\ v.kind = kind /\ v.year = year
HasLayer(children, id) == \E i \in 1..Len(children) : children[i].id = id
LayerCount(children, id) == Cardinality({i \in 1..Len(children) : children[i].id = id})
GeeIds == {"gee-composite-layer", "gee-lst-layer"}
Bit(q, k) == (q \div (2^k)) % 2 = 1

\* C1: for every year of the slider range and every answer of the remote
\* service (images, empty collection, EEException, any other Exception) each
\* builder returns an image handle for that year or None, and no exception
\* leaves a builder.
C1_BuildersReturnHandleOrNone ==
    /\ cb.lst_remote # "none" =>
         /\ cb.selected_year \in years
         /\ cb.lst_image.raised = "none"
         /\ cb.lst_image.value = None \/ IsHandle(cb.lst_image.value, "lst", cb.selected_year)
    /\ cb.comp_remote # "none" =>
         /\ cb.composite_image.raised = "none"
         /\ cb.composite_image.value = None
              \/ IsHandle(cb.composite_image.value, "composite", cb.selected_year)
    /\ cb.pc = "raised" => BuildersCalled

C1_Witness ==
    /\ cb.lst_remote = "Exception" /\ cb.lst_image.value = None
    /\ cb.comp_remote = "images" /\ IsHandle(cb.composite_image.value, "composite", cb.selected_year)

\* C2: when both builders return None the callback returns, its map output is
\* exactly the legend and the OSM base layer (no GEE tile layer) and its status
\* is the no-data message for the selected year; both reach the page.
C2_NoDataPlaceholder ==
    (/\ BuildersCalled
     /\ cb.lst_image.value = None /\ cb.composite_image.value = None
     /\ cb.pc \notin {"composite_layer", "lst_layer"})
    => /\ cb.pc = "returned"
       /\ Len(cb.new_children) = 2
       /\ cb.new_children[1].id = "lst-legend"
       /\ cb.new_children[2].id = "global-osm-layer" /\ cb.new_children[2].url = OSM_URL
       /\ \A id \in GeeIds : ~HasLayer(cb.new_children, id)
       /\ cb.status_text = <<"Current year: ", ToString(cb.selected_year), " (",
                             "no GEE image data available", ")">>
       /\ display_children = cb.new_children
       /\ year_display = cb.status_text

C2_Witness ==
    /\ Returned /\ cb.lst_remote = "empty" /\ cb.comp_remote = "empty"
    /\ Len(display_children) = 2

\* C3 as stated: a QA value with bits 3 and 5 set is excluded and a QA value
\* with neither bit 3 nor bit 5 set is included.
C3_MaskBits3And5 ==
    px.stage = "scaled" =>
        /\ (Bit(px.qa, 3) /\ Bit(px.qa, 5)) => ~px.included
        /\ (~Bit(px.qa, 3) /\ ~Bit(px.qa, 5)) => px.included

\* C3 amended: the mask depends on the QA value alone; a pixel is included
\* exactly when bit 3 (cloud) and bit 4 (cloud shadow) are both clear, whatever
\* bit 5 is; so a QA value with bits 3 and 5 set is excluded and a QA value with
\* neither bit 3 nor bit 4 set is included.
C3_MaskBits3And4 ==
    px.stage = "scaled" =>
        /\ px.included <=> (~Bit(px.qa, 3) /\ ~Bit(px.qa, 4))
        /\ (Bit(px.qa, 3) /\ Bit(px.qa, 5)) => ~px.included
        /\ px.sr = px.raw * 275 - 2000000

C3_Witness ==
    px.stage = "scaled" /\ px.qa = 32 /\ px.included /\ px.raw = 20000 /\ px.sr = 3500000

\* C4 as stated: with GEE_SERVICE_SECRET absent, empty or malformed the startup
\* raises and terminates before the Dash app is created.  Stated for the runs in
\* which every ee.Initialize call made has succeeded, so that a violation does
\* not rest on what the client library does at lines 35-37 after a failed one.
C4_AbsentOrMalformedFatal ==
    (env_secret \in {Unset, "", "{malformed"} /\ ee_initialized # "failed") => ~app_created

\* C4 amended: a non-empty GEE_SERVICE_SECRET that is malformed JSON or no
\* service-account document, or a failing ee.Initialize(credentials), ends the
\* startup before the app, layout and callback exist; ee.Initialize is called
\* at most once (no retry).  With the variable absent or empty the bootstrap
\* does not raise: it calls ee.Initialize() once with the default credentials
\* and catches a failure, and after a successful call the startup never aborts.
C4_MalformedFatal ==
    /\ init_calls <= 1
    /\ env_secret \in {"{malformed", "not-a-service-account-json"} =>
         /\ startup_pc \in {"bootstrap", "aborted"}
         /\ init_calls = 0 /\ ~app_created /\ cb = NoCallback
    /\ (env_secret = "service-account-json" /\ startup_pc # "bootstrap" /\ ee_initialized # "yes") =>
         startup_pc = "aborted" /\ init_calls = 1 /\ ~app_created /\ cb = NoCallback
    /\ (env_secret \in {Unset, ""} /\ startup_pc # "bootstrap") =>
         /\ init_calls = 1
         /\ ee_initialized \in {"yes", "failed"}
         /\ startup_pc = "aborted" => ee_initialized = "failed"
    /\ app_created <=> startup_pc = "serving"

C4_Witness ==
    env_secret = "{malformed" /\ startup_pc = "aborted" /\ ~app_created

\* C5: when the callback returns, its status contains the selected year, and
\* for each image whose getMapId succeeded the map output holds a tile layer
\* whose url is the non-empty url the service returned for that image; the
\* outputs are what the page shows.
C5_ValidDataShown ==
    Returned =>
        /\ Contains(cb.status_text, ToString(cb.selected_year))
        /\ cb.comp_tile.kind = "ok" =>
             \E i \in 1..Len(cb.new_children) :
                 /\ cb.new_children[i].id = "gee-composite-layer"
                 /\ cb.new_children[i].url = TileUrl(cb.composite_image.value, cb.comp_tile.mapid)
                 /\ cb.new_children[i].url # <<>>
        /\ cb.lst_tile.kind = "ok" =>
             \E i \in 1..Len(cb.new_children) :
                 /\ cb.new_children[i].id = "gee-lst-layer"
                 /\ cb.new_children[i].url = TileUrl(cb.lst_image.value, cb.lst_tile.mapid)
                 /\ cb.new_children[i].url # <<>>
        /\ display_children = cb.new_children
        /\ year_display = cb.status_text

C5_Witness ==
    /\ Returned /\ cb.comp_tile.kind = "ok" /\ cb.lst_tile.kind = "ok"
    /\ HasLayer(display_children, "gee-composite-layer")
    /\ HasLayer(display_children, "gee-lst-layer")

ReportsCompositeFailure(text) ==
    Contains(text, "load-failure") \/ Contains(text, "basemap failed, but central LST layer ")
ReportsLstFailure(text) == Contains(text, "LST image processing error: ")

\* C7: whenever getMapId raises EEException for the composite or for the LST
\* image (and no other kind of exception is raised), the callback returns and
\* the status it returns reports that failure, whatever happened to the other
\* image.
C7_TileErrorsSurfaced ==
    (/\ cb.pc \in {"returned", "raised"}
     /\ cb.comp_tile.kind # "Exception" /\ cb.lst_tile.kind # "Exception")
    => /\ cb.comp_tile.kind = "EEException" =>
            Returned /\ ReportsCompositeFailure(cb.status_text)
       /\ cb.lst_tile.kind = "EEException" =>
            Returned /\ ReportsLstFailure(cb.status_text)

PipelineOrder(ops) ==
    LET n == Len(ops)
        At(op) == {i \in 1..n : ops[i] = op}
    IN  /\ n > 0 /\ ops[n] = "clip"
        /\ Cardinality(At("unmask(focal_mean)")) = 10
        /\ \A i \in At("size.getInfo"), j \in At("median") : i < j
        /\ \A i \in At("median"), j \in At("unmask(focal_mean)") : i < j
        /\ \A i \in At("unmask(focal_mean)"), j \in At("clip") : i < j

\* C8: in both builders the emptiness check comes first, then the median and
\* rescaling, then exactly 10 hole-filling iterations, and the clip is the
\* last operation of the returned image: no hole filling follows the clip.
C8_ClipLast ==
    /\ cb.lst_image.value # None => PipelineOrder(cb.lst_image.value.ops)
    /\ cb.composite_image.value # None => PipelineOrder(cb.composite_image.value.ops)

\* C9: the children the callback returns are rebuilt from scratch whatever the
\* map showed before: legend, OSM base, then the composite layer if any, then
\* the LST layer if any; 2 to 4 elements, at most one layer per id, tile
\* z-indexes 1 < 5 < 10 in list order, and every GEE layer is of the selected
\* year.  They replace what the page shows.
C9_ChildrenRebuilt ==
    Returned =>
        LET ch == cb.new_children
            n == Len(ch)
        IN  /\ n \in 2..4
            /\ ch[1] = create_lst_legend(LST_MIN, LST_MAX)
            /\ ch[2].id = "global-osm-layer" /\ ch[2].zIndex = 1
            /\ \A i \in 3..n : ch[i].id \in GeeIds
            /\ \A i \in 1..n : LayerCount(ch, ch[i].id) = 1
            /\ \A i \in 2..n : ch[i].type = "TileLayer" /\ ch[i].zIndex \in {1, 5, 10}
            /\ \A i \in 2..n, j \in 2..n : i < j => ch[i].zIndex < ch[j].zIndex
            /\ \A i \in 3..n :
                   /\ ch[i].attribution[Len(ch[i].attribution)] = ToString(cb.selected_year)
                   /\ ch[i].url \in {TileUrl(cb.composite_image.value, m) : m \in MapIds}
                                    \cup {TileUrl(cb.lst_image.value, m) : m \in MapIds}
            /\ HasLayer(ch, "gee-composite-layer") <=> cb.comp_tile.kind = "ok"
            /\ HasLayer(ch, "gee-lst-layer") <=> cb.lst_tile.kind = "ok"
            /\ display_children = ch

C9_Witness ==
    /\ Returned
    /\ Len(cb.current_children) = 4 /\ Len(cb.new_children) = 4
    /\ cb.current_children[3].attribution # cb.new_children[3].attribution
    /\ cb.current_children[2].id = "global-osm-layer"

ReportsLstSuccess(text) ==
    \E i \in 1..(Len(text) - 1) :
        /\ text[i] \in {"and central LST layer ", "basemap failed, but central LST layer "}
        /\ text[i + 1] = "load-success"
ReportsCompositeSuccess(text) ==
    \E i \in 1..(Len(text) - 1) :
        /\ text[i] = "Taiwan basemap "
        /\ text[i + 1] \in {"load-success", "and central LST layer "}

\* C10: the status the callback returns agrees with the layers it returns: it
\* reports LST success exactly when the LST layer is in the output, reports
\* composite success only when the composite layer is in the output, and is
\* never the initial in-progress text.
C10_StatusConsistent ==
    Returned =>
        /\ ReportsLstSuccess(cb.status_text) <=> HasLayer(cb.new_children, "gee-lst-layer")
        /\ ReportsCompositeSuccess(cb.status_text) => HasLayer(cb.new_children, "gee-composite-layer")
        /\ ~Contains(cb.status_text, "loading...")

====
